---- MODULE Spec2Model ----
(***************************************************************************)
(* Source resolution of zenml (src/zenml/utils/source_utils.py): the       *)
(* process-wide repository-context cache, the custom source root, the      *)
(* classifier, resolve and load, modelled as a state machine.              *)
(*                                                                         *)
(* A path string is a sequence of segments; an absolute path starts with   *)
(* the segment "/".  A dotted module name is the sequence of its parts.    *)
(* A file is a record [dir, stem, ext].                                    *)
(***************************************************************************)
EXTENDS Naturals, Sequences, FiniteSets, TLC

\* ------------------------------------------------------------------ bounds
\* Modules imported afresh (executed again from their file) during one run.
MaxImports == 1

\* ------------------------------------------------------------------- paths
Root == <<"/">>
App == <<"/", "app">>
Pkg == <<"/", "app", "pkg">>
Srv == <<"/", "srv">>
AppSp == <<"/", "app", "venv", "sp">>
Std == <<"/", "usr", "lib">>
StdSp == <<"/", "usr", "lib", "sp">>
Sp == <<"/", "venv", "sp">>
Opt == <<"/", "opt">>

\* The process's working directory (os.getcwd()).
Cwd == App

IsPrefix(p, q) == Len(p) <= Len(q) /\ SubSeq(q, 1, Len(p)) = p

RECURSIVE NormSegs(_, _)
NormSegs(todo, done) ==
    IF todo = <<>> THEN done
    ELSE LET s == Head(todo) IN
         IF s = "." THEN NormSegs(Tail(todo), done)
         ELSE IF s = ".."
              THEN NormSegs(Tail(todo),
                            IF Len(done) > 1 THEN SubSeq(done, 1, Len(done) - 1) ELSE done)
              ELSE NormSegs(Tail(todo), Append(done, s))

\* os.path.abspath: join a relative path to the working directory, then
\* collapse "." and ".." segments.
Abspath(p) ==
    LET full == IF p # <<>> /\ Head(p) = "/" THEN p ELSE Cwd \o p
    IN NormSegs(Tail(full), Root)

\* Path(p).resolve(): absolute and normalised (the model has no symlinks).
PathResolve(p) == Abspath(p)

\* Path(f).parents for a file f: its directory and every ancestor of it.
FileParents(f) == {SubSeq(f.dir, 1, n) : n \in 1..Len(f.dir)}

\* ------------------------------------------------------------- environment
\* Registered code repositories in listing order (Client().list_code_repositories).
Repos == <<"R1", "R2", "R3">>
RepoIds == {Repos[i] : i \in DOMAIN Repos}

\* BaseCodeRepository.from_model raises for a malformed configuration.
Constructible(r) == r # "R1"

\* Root of each repository's local working copy, where it has one.
WcRoot(r) == IF r = "R2" THEN App ELSE Pkg

\* Commit each live working copy is at.
WcCommit(r) == IF r = "R2" THEN "c2" ELSE "c3"

\* Repositories whose working copy appears, disappears and gets edited.
Volatile == {"R2"}

NoCtx == [origin |-> "none"]
LiveCtx(r) == [origin |-> "live", id |-> r, root |-> WcRoot(r)]
DownloadedCtx(id, root, commit) ==
    [origin |-> "downloaded", id |-> id, root |-> root, commit |-> commit]

\* Entry-point configurations: the zenml repository root found from the
\* working directory (<<>> when none) and the __main__ module: loaded from a
\* file, present without a file (interactive), or absent from sys.modules.
EnvConfigs ==
    { [repoRoot |-> <<>>, main |-> "file"],
      [repoRoot |-> Pkg, main |-> "file"],
      [repoRoot |-> <<>>, main |-> "nofile"],
      [repoRoot |-> <<>>, main |-> "absent"] }

Ok(v) == [ok |-> TRUE, val |-> v]
Err(e) == [ok |-> FALSE, err |-> e]

VARIABLES
    customSourceRoot,   \* _CUSTOM_SOURCE_ROOT, <<>> when unset
    cache,              \* _CODE_REPOSITORY_CACHE: absolute path -> context
    env,                \* the entry-point configuration
    wcActive,           \* repository -> its working copy exists now
    wcDirty,            \* repository -> its working copy has local changes
    sysModules,         \* sys.modules: the module objects loaded, one per name
    sysPath,            \* sys.path
    last                \* the operation just run: arguments, probes, result

vars == <<customSourceRoot, cache, env, wcActive, wcDirty, sysModules, sysPath, last>>

\* d[k] = v on a dictionary held as a function.
DictSet(d, k, v) == [q \in DOMAIN d \cup {k} |-> IF q = k THEN v ELSE d[q]]

\* -------------------------------------------------------------- source root
MainFile == [dir |-> App, stem |-> "run", ext |-> "py"]

\* Mutant of GetSourceRootOf: a repository root is preferred to the custom
\* source root.
GetSourceRootRepositoryFirst(custom, e) ==
    IF e.repoRoot # <<>> THEN Ok(PathResolve(e.repoRoot))
    ELSE IF custom # <<>> THEN Ok(custom)
    ELSE IF e.main # "file" THEN Err("RuntimeError")
    ELSE Ok(PathResolve(MainFile.dir))

\* get_source_root for custom source root `custom` in environment e.
GetSourceRootOf(custom, e) ==
    IF custom # <<>> THEN Ok(custom)
    ELSE IF e.repoRoot # <<>> THEN Ok(PathResolve(e.repoRoot))
    ELSE IF e.main # "file" THEN Err("RuntimeError")
    ELSE Ok(PathResolve(MainFile.dir))

get_source_root == GetSourceRootOf(customSourceRoot, env)

\* ------------------------------------------------------ repository contexts
\* repo.get_local_context(path): the live context when the repository has a
\* working copy containing the path.
GetLocalContext(r, path) ==
    IF wcActive[r] /\ IsPrefix(WcRoot(r), path) THEN LiveCtx(r) ELSE NoCtx

\* The scan of find_active_code_repository after a cache miss: walks the
\* listing from index i; gives the context found and the repositories probed.
RECURSIVE Scan(_, _, _)

\* Mutant of Scan: a configuration that cannot be constructed ends the scan.
ScanAbortingOnFailure(i, path, probed) ==
    IF i > Len(Repos) THEN [ctx |-> NoCtx, probed |-> probed]
    ELSE IF ~Constructible(Repos[i]) THEN [ctx |-> NoCtx, probed |-> probed]
    ELSE LET c == GetLocalContext(Repos[i], path) IN
         IF c # NoCtx THEN [ctx |-> c, probed |-> Append(probed, Repos[i])]
         ELSE Scan(i + 1, path, Append(probed, Repos[i]))

Scan(i, path, probed) ==
    IF i > Len(Repos) THEN [ctx |-> NoCtx, probed |-> probed]
    ELSE IF ~Constructible(Repos[i]) THEN Scan(i + 1, path, probed)
    ELSE LET c == GetLocalContext(Repos[i], path) IN
         IF c # NoCtx THEN [ctx |-> c, probed |-> Append(probed, Repos[i])]
         ELSE Scan(i + 1, path, Append(probed, Repos[i]))

\* What a call of find_active_code_repository gives: the result, the cache
\* afterwards, whether the repositories were listed and which were probed.
FindResult(res, at, ch, listed, probed) ==
    [res |-> res, at |-> at, cache |-> ch, listed |-> listed, probed |-> probed]

\* Mutant of FindMiss: an unsuccessful scan is cached too.
FindMissCachingAbsence(ch, p, s) ==
    FindResult(Ok(s.ctx), p, DictSet(ch, p, s.ctx), TRUE, s.probed)

\* Lines 310-324: the scan s ran for absolute path p.
FindMiss(ch, p, s) ==
    FindResult(Ok(s.ctx), p, IF s.ctx # NoCtx THEN DictSet(ch, p, s.ctx) ELSE ch,
               TRUE, s.probed)

\* Mutant of FindAt: a live working copy is preferred to the cached entry.
FindAtLiveFirst(ch, p) ==
    IF p \in DOMAIN ch /\ Scan(1, p, <<>>).ctx = NoCtx
    THEN FindResult(Ok(ch[p]), p, ch, FALSE, <<>>)
    ELSE FindMiss(ch, p, Scan(1, p, <<>>))

\* Mutant of FindAt: a cached live context is dropped once its working copy
\* is gone.
FindAtExpiring(ch, p) ==
    IF p \in DOMAIN ch /\ (ch[p].origin = "live" => wcActive[ch[p].id])
    THEN FindResult(Ok(ch[p]), p, ch, FALSE, <<>>)
    ELSE FindMiss(ch, p, Scan(1, p, <<>>))

\* Lines 307-324, for absolute path p.
FindAt(ch, p) ==
    IF p \in DOMAIN ch THEN FindResult(Ok(ch[p]), p, ch, FALSE, <<>>)
    ELSE FindMiss(ch, p, Scan(1, p, <<>>))

\* Line 304 with no path given: r is what get_source_root() gave.
FindDefault(ch, r) ==
    IF ~r.ok THEN FindResult(Err(r.err), <<>>, ch, FALSE, <<>>)
    ELSE FindAt(ch, Abspath(r.val))

\* find_active_code_repository(path) on cache ch (<<>>: no path given).
FindIn(ch, path) ==
    IF path # <<>> THEN FindAt(ch, Abspath(path)) ELSE FindDefault(ch, get_source_root)

\* context.has_local_changes (line 144).  A downloaded context reports none:
\* set_custom_local_repository exists so that objects of downloaded files
\* resolve to a code-repository source (its docstring, lines 260-269).
HasLocalChanges(c) ==
    IF c.origin = "live" THEN wcDirty[c.id] ELSE FALSE

\* context.is_dirty (line 489): uncommitted changes in the working copy, which
\* are local changes too.
IsDirty(c) ==
    IF c.origin = "live" THEN wcDirty[c.id] ELSE FALSE

\* context.current_commit (line 152): the commit given at injection for a
\* downloaded context.
CurrentCommit(c) ==
    IF c.origin = "live" THEN WcCommit(c.id) ELSE c.commit


\* ------------------------------------------------------- files and modules
NoFile == [dir |-> <<>>, stem |-> "", ext |-> ""]
File(dir, stem, ext) == [dir |-> dir, stem |-> stem, ext |-> ext]

\* The python files on disk.
Files ==
    { MainFile,
      File(Pkg, "mod", "py"),
      File(Pkg, "ext", "so"),
      File(AppSp \o <<"dist">>, "m", "py"),
      File(Std, "os", "py"),
      File(StdSp, "six", "py"),
      File(Sp \o <<"numpy">>, "core", "py"),
      File(Sp \o <<"ns">>, "x", "py"),
      File(Sp, "orphan", "py"),
      File(Sp \o <<"zenml">>, "steps", "py"),
      File(Opt, "misc", "py"),
      File(Opt \o <<"edit">>, "core", "py") }

Module(name, file) == [name |-> name, file |-> file]
MainName == <<"__main__">>

\* sys.modules when the process starts, apart from __main__.
Preloaded ==
    { Module(<<"pkg", "mod">>, File(Pkg, "mod", "py")),
      Module(<<"mod">>, File(Pkg, "mod", "py")),
      Module(<<"pkg", "ext">>, File(Pkg, "ext", "so")),
      Module(<<"dist", "m">>, File(AppSp \o <<"dist">>, "m", "py")),
      Module(<<"os">>, File(Std, "os", "py")),
      Module(<<"six">>, File(StdSp, "six", "py")),
      Module(<<"numpy", "core">>, File(Sp \o <<"numpy">>, "core", "py")),
      Module(<<"ns", "x">>, File(Sp \o <<"ns">>, "x", "py")),
      Module(<<"orphan">>, File(Sp, "orphan", "py")),
      Module(<<"zenml", "steps">>, File(Sp \o <<"zenml">>, "steps", "py")),
      Module(<<"misc">>, File(Opt, "misc", "py")),
      Module(<<"edit", "core">>, File(Opt \o <<"edit">>, "core", "py")),
      Module(<<"sys">>, NoFile) }

MainModules(e) ==
    IF e.main = "file" THEN {Module(MainName, MainFile)}
    ELSE IF e.main = "nofile" THEN {Module(MainName, NoFile)}
    ELSE {}

\* Names every python source file binds at top level: a function f and a
\* class K.
TopLevelNames == {"f", "K"}

\* An object (class or function): the module object whose code defined it, its
\* __name__, and whether the definition is top-level code or local to a
\* function body.  Two objects are the same object iff the records are equal.
Object(m, name, scope) == [mod |-> m, name |-> name, scope |-> scope]
IsModule(x) == "file" \in DOMAIN x

NoAttr == [absent |-> TRUE]

\* isinstance(x, type)
IsClass(x) == ~IsModule(x) /\ x.name = "K"

\* issubclass(x, expected) for a class x: every K derives from Base.
IsSubclass(x, expected) == expected \in {"K", "Base"}

\* getattr(module, name, None)
GetAttr(m, name) ==
    IF m.file # NoFile /\ name \in TopLevelNames THEN Object(m, name, "top") ELSE NoAttr

\* sys.modules[name]
ModulesNamed(name) == {m \in sysModules : m.name = name}

\* importlib.metadata.packages_distributions()
PackagesDistributions(top) ==
    IF top = "numpy" THEN <<"numpy">>
    ELSE IF top = "six" THEN <<"six">>
    ELSE IF top = "edit" THEN <<"edit-pkg">>
    ELSE IF top = "ns" THEN <<"ns-a", "ns-b">>
    ELSE <<>>

\* importlib.metadata.version: "" when the lookup raises.
InstalledVersion(package) ==
    IF package = "numpy" THEN "1.0"
    ELSE IF package = "six" THEN "1.16"
    ELSE ""

\* site.getsitepackages() + [site.getusersitepackages()]
SitePackages == {Sp, AppSp, StdSp}

\* get_python_lib(standard_lib=True)
StdlibRoot == Std

\* ---------------------------------------------------------------- classifier
is_internal_module(name) == Head(name) = "zenml"

is_standard_lib_file(file) == PathResolve(StdlibRoot) \in FileParents(file)

\* is_user_file, given the source root
is_user_file(file, root) == root \in FileParents(file)

\* Mutant of GetPackageForModule: the first owner is taken when several own
\* the top-level name.
GetPackageFirstOwner(name) ==
    LET owners == PackagesDistributions(Head(name)) IN
    IF Len(owners) >= 1 THEN owners[1] ELSE ""

\* _get_package_for_module: "" for None
GetPackageForModule(name) ==
    LET owners == PackagesDistributions(Head(name)) IN
    IF Len(owners) = 1 THEN owners[1] ELSE ""

\* _get_package_version
GetPackageVersion(package) == InstalledVersion(package)

is_distribution_package_file(file, name) ==
    \/ \E sp \in SitePackages : PathResolve(sp) \in FileParents(file)
    \/ GetPackageForModule(name) # ""

\* Mutant of ClassifyByRoot: distribution packages are recognised before
\* user files.
ClassifyDistributionFirst(m, r) ==
    IF ~r.ok THEN Err(r.err)
    ELSE IF is_distribution_package_file(m.file, m.name) THEN Ok("distribution_package")
    ELSE IF is_user_file(m.file, r.val) THEN Ok("user")
    ELSE Ok("unknown")

\* get_source_type from is_user_file on (lines 416-424): r is what
\* get_source_root() gave.
ClassifyByRoot(m, r) ==
    IF ~r.ok THEN Err(r.err)
    ELSE IF is_user_file(m.file, r.val) THEN Ok("user")
    ELSE IF is_distribution_package_file(m.file, m.name) THEN Ok("distribution_package")
    ELSE Ok("unknown")

\* get_source_type: Ok(classification), or the error get_source_root raises.
GetSourceType(m) ==
    IF m.file = NoFile THEN Ok("builtin")
    ELSE IF is_internal_module(m.name) THEN Ok("internal")
    ELSE IF is_standard_lib_file(m.file) THEN Ok("builtin")
    ELSE ClassifyByRoot(m, get_source_root)

\* ------------------------------------------------------------------ resolver
\* Mutant of ModulePathBelow: the file name alone names the module.
ModulePathBaseName(m, root, dir) ==
    IF ~IsPrefix(root, dir) THEN Err("RuntimeError")
    ELSE IF m.file.ext # "py" THEN Err("RuntimeError")
    ELSE Ok(<<m.file.stem>>)

\* _resolve_module, lines 524-549: root and dir are the absolute source root
\* and the absolute directory of the module's file.
ModulePathBelow(m, root, dir) ==
    IF ~IsPrefix(root, dir) THEN Err("RuntimeError")
    ELSE IF m.file.ext # "py" THEN Err("RuntimeError")
    ELSE Ok(SubSeq(dir, Len(root) + 1, Len(dir)) \o <<m.file.stem>>)

\* _resolve_module with r what get_source_root() gave.
ResolveModuleAt(m, r) ==
    IF ~r.ok THEN Err(r.err)
    ELSE ModulePathBelow(m, Abspath(r.val), Abspath(m.file.dir))

\* _resolve_module: the dotted path of the module's file below the source root.
ResolveModule(m) ==
    IF m.file = NoFile
    THEN IF m.name = MainName THEN Err("RuntimeError") ELSE Ok(m.name)
    ELSE ResolveModuleAt(m, get_source_root)

\* Path(...).relative_to(root): the segments of path below root.
RelativeSegments(rel) == IF rel = <<>> THEN <<".">> ELSE rel

\* PurePath(source_root).relative_to(root).as_posix()
RelativeTo(path, root) ==
    IF ~IsPrefix(root, path) THEN Err("ValueError")
    ELSE Ok(RelativeSegments(SubSeq(path, Len(root) + 1, Len(path))))

PlainSource(module, attribute, type) ==
    [variant |-> "plain", module |-> module, attribute |-> attribute, type |-> type]

CodeRepositorySource(id, commit, subdir, module, attribute) ==
    [variant |-> "code_repository", module |-> module, attribute |-> attribute,
     type |-> "code_repository", repository_id |-> id, commit |-> commit,
     subdirectory |-> subdir]

DistributionPackageSource(module, attribute, package, version, type) ==
    [variant |-> "distribution_package", module |-> module, attribute |-> attribute,
     type |-> type, package_name |-> package, version |-> version]

\* What resolve gives: the result, the cache afterwards, the classification
\* reached ("" when none was) and the context looked up (user modules).
ResolveResult(res, ch, type, ctx) ==
    [res |-> res, cache |-> ch, type |-> type, ctx |-> ctx]

\* Mutant of ResolveTracked: the subdirectory is left out.
ResolveTrackedNoSubdirectory(attribute, ctx, name, sub) ==
    IF ~name.ok THEN Err(name.err)
    ELSE IF ~sub.ok THEN Err(sub.err)
    ELSE Ok(CodeRepositorySource(ctx.id, CurrentCommit(ctx), <<".">>, name.val, attribute))

\* Lines 145-156: the code-repository source for context ctx; name is the
\* re-derived module path, sub the subdirectory.
ResolveTracked(attribute, ctx, name, sub) ==
    IF ~name.ok THEN Err(name.err)
    ELSE IF ~sub.ok THEN Err(sub.err)
    ELSE Ok(CodeRepositorySource(ctx.id, CurrentCommit(ctx), sub.val, name.val, attribute))

\* Lines 158, 174-176: the plain user source.
ResolveUntracked(attribute, name) ==
    IF ~name.ok THEN Err(name.err) ELSE Ok(PlainSource(name.val, attribute, "user"))

\* Mutant of ResolveUserWith: local changes are not looked at.
ResolveUserIgnoringChanges(m, attribute, f, ctx) ==
    IF ctx # NoCtx
    THEN ResolveResult(ResolveTracked(attribute, ctx, ResolveModule(m),
                                      RelativeTo(get_source_root.val, ctx.root)),
                       f.cache, "user", ctx)
    ELSE ResolveResult(ResolveUntracked(attribute, ResolveModule(m)), f.cache, "user", ctx)

\* The user branch of resolve (lines 141-158): f is what
\* find_active_code_repository() gave, ctx the context it found.
ResolveUserWith(m, attribute, f, ctx) ==
    IF ctx # NoCtx /\ ~HasLocalChanges(ctx)
    THEN ResolveResult(ResolveTracked(attribute, ctx, ResolveModule(m),
                                      RelativeTo(get_source_root.val, ctx.root)),
                       f.cache, "user", ctx)
    ELSE ResolveResult(ResolveUntracked(attribute, ResolveModule(m)), f.cache, "user", ctx)

ResolveUser(m, attribute, f) ==
    IF ~f.res.ok THEN ResolveResult(Err(f.res.err), f.cache, "user", NoCtx)
    ELSE ResolveUserWith(m, attribute, f, f.res.val)

\* The distribution-package branch of resolve (lines 159-176).
ResolveDistribution(moduleName, attribute, package) ==
    IF package # ""
    THEN Ok(DistributionPackageSource(moduleName, attribute, package,
                                      GetPackageVersion(package), "distribution_package"))
    ELSE Ok(PlainSource(moduleName, attribute, "unknown"))

\* resolve from line 141 on: name is the module name of lines 135-137, type
\* what get_source_type gave.
ResolveTyped(m, attribute, name, type) ==
    IF ~name.ok THEN ResolveResult(Err(name.err), cache, "", NoCtx)
    ELSE IF ~type.ok THEN ResolveResult(Err(type.err), cache, "", NoCtx)
    ELSE IF type.val = "user" THEN ResolveUser(m, attribute, FindIn(cache, <<>>))
    ELSE IF type.val = "distribution_package"
    THEN ResolveResult(ResolveDistribution(name.val, attribute, GetPackageForModule(name.val)),
                       cache, type.val, NoCtx)
    ELSE ResolveResult(Ok(PlainSource(name.val, attribute, type.val)), cache, type.val, NoCtx)

\* Mutant of ResolveIn: the module only has to have an attribute of the name.
ResolveInByName(obj, m, attribute) ==
    IF attribute # "" /\ GetAttr(m, attribute) = NoAttr
    THEN ResolveResult(Err("RuntimeError"), cache, "", NoCtx)
    ELSE ResolveTyped(m, attribute,
                      IF m.name = MainName THEN ResolveModule(m) ELSE Ok(m.name),
                      GetSourceType(m))

\* resolve from line 125 on, for module m and attribute name ("" for None).
ResolveIn(obj, m, attribute) ==
    IF attribute # "" /\ GetAttr(m, attribute) # obj
    THEN ResolveResult(Err("RuntimeError"), cache, "", NoCtx)
    ELSE ResolveTyped(m, attribute,
                      IF m.name = MainName THEN ResolveModule(m) ELSE Ok(m.name),
                      GetSourceType(m))

\* Line 122: sys.modules[obj.__module__]
ResolveNamed(obj, found) ==
    IF found = {} THEN ResolveResult(Err("KeyError"), cache, "", NoCtx)
    ELSE ResolveIn(obj, CHOOSE x \in found : TRUE, obj.name)

\* resolve(obj)
Resolve(obj) ==
    IF IsModule(obj) THEN ResolveIn(obj, obj, "")
    ELSE ResolveNamed(obj, ModulesNamed(obj.mod.name))

\* -------------------------------------------------------------------- loader
\* Mutant of DriftWarning: uncommitted changes are not reported.
DriftWarningIgnoringDirty(source, ctx) ==
    IF ctx = NoCtx THEN "not_active"
    ELSE IF ctx.id # source.repository_id THEN "other_repository"
    ELSE IF CurrentCommit(ctx) # source.commit THEN "other_commit"
    ELSE ""

\* The warning of _warn_about_potential_source_loading_issues for the context
\* found ("" when none is logged).
DriftWarning(source, ctx) ==
    IF ctx = NoCtx THEN "not_active"
    ELSE IF ctx.id # source.repository_id THEN "other_repository"
    ELSE IF CurrentCommit(ctx) # source.commit THEN "other_commit"
    ELSE IF IsDirty(ctx) THEN "dirty"
    ELSE ""

\* The version warning of load for a distribution-package source (lines 75-90).
WarnAboutVersion(source) ==
    IF source.version # "" /\ GetPackageVersion(source.package_name) # source.version
    THEN "other_version" ELSE ""

\* What load has before it imports: the import root (<<>> for None) or the
\* error raised, the warning logged and the cache.
Prepared(res, warning, ch) == [res |-> res, warning |-> warning, cache |-> ch]

\* Lines 71-74: f is what find_active_code_repository() gave inside
\* _warn_about_potential_source_loading_issues, r what get_source_root() gave.
PrepareTracked(source, f, r) ==
    IF ~f.res.ok THEN Prepared(Err(f.res.err), "", f.cache)
    ELSE IF ~r.ok THEN Prepared(Err(r.err), "", f.cache)
    ELSE Prepared(Ok(r.val), DriftWarning(source, f.res.val), f.cache)

\* Lines 91-94
PrepareUser(r) ==
    IF ~r.ok THEN Prepared(Err(r.err), "", cache) ELSE Prepared(Ok(r.val), "", cache)

\* Mutant of LoadPrepare: only code-repository and user sources get the source
\* root as import root.
LoadPrepareUserOnly(source) ==
    IF source.type = "code_repository"
    THEN PrepareTracked(source, FindIn(cache, <<>>), get_source_root)
    ELSE IF source.type = "distribution_package"
    THEN Prepared(Ok(<<>>), WarnAboutVersion(source), cache)
    ELSE IF source.type = "user" THEN PrepareUser(get_source_root)
    ELSE Prepared(Ok(<<>>), "", cache)

\* load up to the call of _load_module (lines 67-94).
LoadPrepare(source) ==
    IF source.type = "code_repository"
    THEN PrepareTracked(source, FindIn(cache, <<>>), get_source_root)
    ELSE IF source.type = "distribution_package"
    THEN Prepared(Ok(<<>>), WarnAboutVersion(source), cache)
    ELSE IF source.type \in {"user", "unknown"} THEN PrepareUser(get_source_root)
    ELSE Prepared(Ok(<<>>), "", cache)

\* sys.path.insert(0, path)
PathInsert(path, entry) == <<entry>> \o path

\* Mutant of PathRemove: drops the last occurrence.
PathRemoveLast(path, entry) ==
    LET i == CHOOSE k \in 1..Len(path) :
                 path[k] = entry /\ \A j \in (k + 1)..Len(path) : path[j] # entry
    IN SubSeq(path, 1, i - 1) \o SubSeq(path, i + 1, Len(path))

\* sys.path.remove(path): drops the first occurrence.
PathRemove(path, entry) ==
    LET i == CHOOSE k \in 1..Len(path) :
                 path[k] = entry /\ \A j \in 1..(k - 1) : path[j] # entry
    IN SubSeq(path, 1, i - 1) \o SubSeq(path, i + 1, Len(path))

\* The files the import system finds for a module name in one sys.path entry.
FilesFor(name, entry) ==
    {f \in Files : /\ f.ext \in {"py", "so"}
                   /\ IsPrefix(entry, f.dir)
                   /\ SubSeq(f.dir, Len(entry) + 1, Len(f.dir)) \o <<f.stem>> = name}

FirstOf(hits) == CHOOSE i \in hits : \A j \in hits : i <= j

Imported(res, fresh) == [res |-> res, fresh |-> fresh]

\* The path-based finder: hits are the sys.path positions holding the module.
ImportFromPath(name, path, hits) ==
    IF hits = {} THEN Imported(Err("ModuleNotFoundError"), FALSE)
    ELSE Imported(Ok(Module(name, CHOOSE f \in FilesFor(name, path[FirstOf(hits)]) : TRUE)),
                  TRUE)

ImportCached(name, path, cached) ==
    IF cached # {} THEN Imported(Ok(CHOOSE m \in cached : TRUE), FALSE)
    ELSE ImportFromPath(name, path, {k \in 1..Len(path) : FilesFor(name, path[k]) # {}})

\* importlib.import_module(name) with search path `path`: the module of that
\* name in sys.modules, else the first file found along the path, executed
\* into a new module object.
ImportModule(name, path) == ImportCached(name, path, ModulesNamed(name))

\* getattr(module, attribute) at the end of load (lines 98-103).
LoadAttribute(m, attribute) ==
    IF attribute = "" THEN Ok(m)
    ELSE IF m.file # NoFile /\ attribute \in TopLevelNames THEN Ok(Object(m, attribute, "top"))
    ELSE Err("AttributeError")

Idle == [op |-> "none"]

Init ==
    /\ customSourceRoot = <<>>
    /\ cache = <<>>
    /\ env \in EnvConfigs
    /\ wcActive = [r \in {"R2", "R3"} |-> r \notin Volatile]
    /\ wcDirty = [r \in {"R2", "R3"} |-> FALSE]
    /\ sysModules = Preloaded \cup MainModules(env)
    /\ sysPath = <<Std, Sp, App>>
    /\ last = Idle

\* ------------------------------------------------------------------ actions
\* Arguments find_active_code_repository is called with (<<>>: no argument).
FindArgs == {<<>>, App, <<"/", "app", "pkg", "..">>, <<"pkg">>}

FindActiveCodeRepository ==
    \E path \in FindArgs :
        LET f == FindIn(cache, path) IN
        /\ cache' = f.cache
        /\ last' = [op |-> "find", path |-> path, at |-> f.at, res |-> f.res,
                    listed |-> f.listed, probed |-> f.probed]
        /\ UNCHANGED <<customSourceRoot, env, wcActive, wcDirty, sysModules, sysPath>>

\* Mutant of SetCustomSourceRoot: the context cached for the old source root
\* follows the source root to the new one.
SetCustomSourceRootMovingContext ==
    \E root \in {<<>>, App, Pkg} :
        /\ customSourceRoot' = root
        /\ cache' = IF /\ root # <<>>
                       /\ get_source_root.ok
                       /\ get_source_root.val \in DOMAIN cache
                    THEN DictSet(cache, root, cache[get_source_root.val])
                    ELSE cache
        /\ last' = [op |-> "set_root", root |-> root]
        /\ UNCHANGED <<env, wcActive, wcDirty, sysModules, sysPath>>

\* set_custom_source_root(root), <<>> for None
SetCustomSourceRoot ==
    \E root \in {<<>>, App, Pkg} :
        /\ customSourceRoot' = root
        /\ last' = [op |-> "set_root", root |-> root]
        /\ UNCHANGED <<cache, env, wcActive, wcDirty, sysModules, sysPath>>

SetCustomLocalRepository ==
    \E root \in {App, Srv}, commit \in {"abc"}, repo \in {"R3"} :
        LET r == get_source_root
            ctx == DownloadedCtx(repo, root, commit)
        IN
        /\ cache' = IF r.ok THEN DictSet(cache, Abspath(r.val), ctx) ELSE cache
        /\ last' = IF r.ok THEN [op |-> "inject", res |-> Ok(Abspath(r.val)), ctx |-> ctx]
                   ELSE [op |-> "inject", res |-> Err(r.err), ctx |-> ctx]
        /\ UNCHANGED <<customSourceRoot, env, wcActive, wcDirty, sysModules, sysPath>>

\* get_source_root()
GetSourceRoot ==
    /\ last' = [op |-> "get_root", res |-> get_source_root]
    /\ UNCHANGED <<customSourceRoot, cache, env, wcActive, wcDirty, sysModules, sysPath>>

\* The working copies change underneath the process.
WorkingCopyChanges ==
    \E r \in Volatile :
        /\ \/ wcActive' = [wcActive EXCEPT ![r] = ~@] /\ UNCHANGED wcDirty
           \/ wcDirty' = [wcDirty EXCEPT ![r] = ~@] /\ UNCHANGED wcActive
        /\ last' = Idle
        /\ UNCHANGED <<customSourceRoot, cache, env, sysModules, sysPath>>

\* get_source_type(module) for a loaded module.
ClassifyModule ==
    \E m \in sysModules :
        /\ last' = [op |-> "classify", module |-> m, res |-> GetSourceType(m)]
        /\ UNCHANGED <<customSourceRoot, cache, env, wcActive, wcDirty, sysModules, sysPath>>

\* Objects resolve is called with: the loaded modules, their top-level
\* definitions, and definitions local to a function body of two of them.
ResolveArgs ==
    {m \in sysModules : m.name \in {MainName, <<"pkg", "mod">>, <<"sys">>}}
    \cup {Object(m, "f", "top") : m \in {x \in sysModules : x.file # NoFile}}
    \cup {Object(m, n, "local") :
            m \in {x \in sysModules : x.name \in {<<"pkg", "mod">>, <<"numpy", "core">>}},
            n \in {"f", "inner"}}

ResolveObject ==
    \E obj \in ResolveArgs :
        LET r == Resolve(obj) IN
        /\ cache' = r.cache
        /\ last' = [op |-> "resolve", obj |-> obj, res |-> r.res, type |-> r.type,
                    ctx |-> r.ctx]
        /\ UNCHANGED <<customSourceRoot, env, wcActive, wcDirty, sysModules, sysPath>>

\* Descriptors load is called with besides the one resolve just returned.
LoadArgs ==
    { PlainSource(<<"ghost">>, "f", "user"),
      PlainSource(<<"pkg", "mod">>, "g", "unknown"),
      PlainSource(<<"zenml", "steps">>, "f", "internal"),
      PlainSource(<<"ghost">>, "", "builtin"),
      DistributionPackageSource(<<"numpy", "core">>, "f", "numpy", "0.9",
                                "distribution_package"),
      CodeRepositorySource("R2", "c2", <<".">>, <<"pkg", "mod">>, "f"),
      CodeRepositorySource("R3", "abc", <<".">>, <<"ghost">>, "f") }

\* Import path strings load is called with: a dotted module path and an
\* optional attribute suffix ("" for none).
ImportPaths ==
    { [path |-> <<"pkg", "mod">>, suffix |-> "f"],
      [path |-> <<"ghost">>, suffix |-> ""] }

\* Source.from_import_path: the plain source classified unknown.
FromImportPath(s) == PlainSource(s.path, s.suffix, "unknown")

\* Modules imported afresh so far.
FreshModules == sysModules \ (Preloaded \cup MainModules(env))

LoadRecord(source, from, res, warning, before, during) ==
    [op |-> "load", source |-> source, from |-> from, res |-> res, warning |-> warning,
     pathBefore |-> before, pathDuring |-> during]

\* _load_module with prepend_python_path around the import (lines 566-568):
\* the root is on sys.path while the import runs and is removed in the
\* finally clause, also when the import raised.
LoadModuleDone(source, from, p, during, i) ==
    /\ sysModules' = IF i.fresh THEN sysModules \cup {i.res.val} ELSE sysModules
    /\ sysPath' = IF p.res.val # <<>> THEN PathRemove(during, p.res.val) ELSE during
    /\ last' = LoadRecord(source, from,
                          IF i.res.ok THEN LoadAttribute(i.res.val, source.attribute)
                          ELSE Err(i.res.err),
                          p.warning, sysPath, during)

LoadModule(source, from, p, during) ==
    LoadModuleDone(source, from, p, during, ImportModule(source.module, during))

\* load from line 96 on: p is what lines 67-94 prepared.
LoadWith(source, from, p) ==
    /\ cache' = p.cache
    /\ IF ~p.res.ok
       THEN /\ last' = LoadRecord(source, from, Err(p.res.err), "", sysPath, sysPath)
            /\ UNCHANGED <<sysModules, sysPath>>
       ELSE LoadModule(source, from, p,
                       IF p.res.val # <<>> THEN PathInsert(sysPath, p.res.val) ELSE sysPath)

\* load(source).  `from` is the object whose resolve result is being loaded,
\* when it is.
Load(source, from) ==
    /\ ModulesNamed(source.module) = {} => Cardinality(FreshModules) < MaxImports
    /\ LoadWith(source, from, LoadPrepare(source))
    /\ UNCHANGED <<customSourceRoot, env, wcActive, wcDirty>>

LoadResolved ==
    /\ last.op = "resolve"
    /\ last.res.ok
    /\ Load(last.res.val, last.obj)

LoadGiven ==
    \E source \in LoadArgs : Load(source, NoAttr)

\* load(source) for a string (lines 67-68).
LoadImportPath ==
    \E s \in ImportPaths : Load(FromImportPath(s), NoAttr)

\* load as a function of the state: what it returns, and the cache,
\* sys.modules and sys.path it leaves.
LoadOutcome(res, ch, modules, path) ==
    [res |-> res, cache |-> ch, modules |-> modules, path |-> path]

\* Lines 96-103 with the import done: i is what import_module gave with
\* search path `during`.
LoadOutcomeImported(source, p, during, i) ==
    LoadOutcome(IF i.res.ok THEN LoadAttribute(i.res.val, source.attribute)
                ELSE Err(i.res.err),
                p.cache,
                IF i.fresh THEN sysModules \cup {i.res.val} ELSE sysModules,
                IF p.res.val # <<>> THEN PathRemove(during, p.res.val) ELSE during)

LoadOutcomeDuring(source, p, during) ==
    LoadOutcomeImported(source, p, during, ImportModule(source.module, during))

LoadOutcomeWith(source, p) ==
    IF ~p.res.ok THEN LoadOutcome(Err(p.res.err), p.cache, sysModules, sysPath)
    ELSE LoadOutcomeDuring(source, p,
                           IF p.res.val # <<>> THEN PathInsert(sysPath, p.res.val)
                           ELSE sysPath)

LoadOutcomeOf(source) == LoadOutcomeWith(source, LoadPrepare(source))

\* Classes a loaded object is required to derive from.
ExpectedClasses == {"Base", "Other"}

\* Descriptors the two validating loads are called with.
ValidateArgs ==
    LoadArgs \cup { PlainSource(<<"pkg", "mod">>, "K", "user"),
                    PlainSource(<<"numpy", "core">>, "K", "unknown"),
                    PlainSource(<<"os">>, "", "builtin") }

\* load_and_validate_class from line 639 on: l is what load gave.
LoadAndValidateResult(l, expected) ==
    IF ~l.ok THEN Err(l.err)
    ELSE IF IsClass(l.val) /\ IsSubclass(l.val, expected) THEN Ok(l.val)
    ELSE Err("TypeError")

\* Mutant of ValidateResult: whatever loads is accepted.
ValidateResultAnyObject(l, expected) ==
    IF ~l.ok THEN FALSE ELSE TRUE

\* validate_source_class from line 661 on: l is what load gave, an error
\* standing for the exception caught.
ValidateResult(l, expected) ==
    IF ~l.ok THEN FALSE
    ELSE IF IsClass(l.val) /\ IsSubclass(l.val, expected) THEN TRUE
    ELSE FALSE

\* The state a validating load leaves is the state its load leaves.
ValidateDone(op, source, expected, l, res) ==
    /\ cache' = l.cache
    /\ sysModules' = l.modules
    /\ sysPath' = l.path
    /\ last' = [op |-> op, source |-> source, expected |-> expected,
                loaded |-> l.res, res |-> res]
    /\ UNCHANGED <<customSourceRoot, env, wcActive, wcDirty>>

LoadAndValidateWith(source, expected, l) ==
    ValidateDone("load_and_validate", source, expected, l,
                 LoadAndValidateResult(l.res, expected))

LoadAndValidateClass ==
    \E source \in ValidateArgs, expected \in ExpectedClasses :
        /\ ModulesNamed(source.module) = {} => Cardinality(FreshModules) < MaxImports
        /\ LoadAndValidateWith(source, expected, LoadOutcomeOf(source))

ValidateSourceClassWith(source, expected, l) ==
    ValidateDone("validate", source, expected, l, ValidateResult(l.res, expected))

ValidateSourceClass ==
    \E source \in ValidateArgs, expected \in ExpectedClasses :
        /\ ModulesNamed(source.module) = {} => Cardinality(FreshModules) < MaxImports
        /\ ValidateSourceClassWith(source, expected, LoadOutcomeOf(source))

\* Every operation of the module.
Next ==
    \/ FindActiveCodeRepository
    \/ GetSourceRoot
    \/ SetCustomSourceRoot
    \/ SetCustomLocalRepository
    \/ WorkingCopyChanges
    \/ ClassifyModule
    \/ ResolveObject
    \/ LoadResolved
    \/ LoadGiven
    \/ LoadImportPath
    \/ LoadAndValidateClass
    \/ ValidateSourceClass

Spec == Init /\ [][Next]_vars

\* The cache, the source root and resolve: every operation but load.
NextResolve ==
    \/ FindActiveCodeRepository
    \/ SetCustomSourceRoot
    \/ SetCustomLocalRepository
    \/ WorkingCopyChanges
    \/ ResolveObject

SpecResolve == Init /\ [][NextResolve]_vars

\* resolve and load over live working copies.
NextLoad ==
    \/ SetCustomSourceRoot
    \/ WorkingCopyChanges
    \/ ResolveObject
    \/ LoadResolved
    \/ LoadGiven
    \/ LoadImportPath

SpecLoad == Init /\ [][NextLoad]_vars

\* The source root and the classifier under every source root.
NextClassify ==
    \/ GetSourceRoot
    \/ SetCustomSourceRoot
    \/ ClassifyModule

SpecClassify == Init /\ [][NextClassify]_vars

\* The two validating loads under every source root.
NextValidate ==
    \/ SetCustomSourceRoot
    \/ LoadAndValidateClass
    \/ ValidateSourceClass

SpecValidate == Init /\ [][NextValidate]_vars

\* ------------------------------------------------------------------ claims
\* C1: every load that prepends the source root to sys.path leaves sys.path
\* exactly as it was before the call, when the import succeeds and when it
\* raises.
C1_PathRestored ==
    [][(last'.op = "load" /\ last'.pathDuring # sysPath)
         => /\ last'.pathDuring = <<get_source_root.val>> \o sysPath
            /\ sysPath' = sysPath]_vars

\* A load whose import raised with the source root prepended, the root being
\* on sys.path a second time already.
C1_Witness ==
    /\ last.op = "load"
    /\ last.res = Err("ModuleNotFoundError")
    /\ last.pathDuring # last.pathBefore
    /\ \E k \in 1..Len(last.pathBefore) : last.pathBefore[k] = Head(last.pathDuring)
    /\ sysPath = last.pathBefore

\* C2: once a context is injected for a path, a lookup of that path returns
\* the injected context without listing or probing any repository, also when
\* a repository reports a live working copy there; the entry is never
\* removed, and replaced only by another injection.
C2_InjectedWins ==
    [][\A p \in DOMAIN cache :
         cache[p].origin = "downloaded"
           => /\ p \in DOMAIN cache'
              /\ cache'[p] # cache[p] => (last'.op = "inject" /\ last'.res = Ok(p))
              /\ (last'.op = "find" /\ last'.at = p)
                   => /\ last'.res = Ok(cache[p])
                      /\ ~last'.listed
                      /\ last'.probed = <<>>]_vars

\* A lookup answered with the injected context although a registered
\* repository has a live working copy containing the path.
C2_Witness ==
    /\ last.op = "find"
    /\ last.res.ok
    /\ last.res.val.origin = "downloaded"
    /\ ~last.listed
    /\ \E r \in {"R2", "R3"} : wcActive[r] /\ IsPrefix(WcRoot(r), last.at)

\* C3 as stated, for the step that follows a lookup: the context a lookup
\* returned for a path stays that path's entry, and a lookup of the path
\* returns it again without listing.
C3_ReturnedContextStays ==
    [][(last.op = "find" /\ last.res.ok /\ last.res.val # NoCtx)
         => /\ last.at \in DOMAIN cache'
            /\ cache'[last.at] = last.res.val
            /\ (last'.op = "find" /\ last'.at = last.at)
                 => (last'.res = last.res /\ ~last'.listed)]_vars

\* C3 amended: a cached entry never expires and no probe replaces it; only
\* set_custom_local_repository overwrites it.  Every lookup of a cached path
\* returns the entry cached then, without listing or probing, whatever the
\* repositories report.
C3_CachedUntilInjected ==
    [][\A p \in DOMAIN cache :
         /\ p \in DOMAIN cache'
         /\ cache'[p] # cache[p]
              => /\ last'.op = "inject"
                 /\ last'.res = Ok(p)
                 /\ cache'[p] = last'.ctx
         /\ (last'.op = "find" /\ last'.at = p)
              => /\ last'.res = Ok(cache[p])
                 /\ ~last'.listed
                 /\ last'.probed = <<>>]_vars

\* A lookup answered from the cache with the live context of a repository
\* whose working copy is gone by now.
C3_Witness ==
    /\ last.op = "find"
    /\ last.res.ok
    /\ last.res.val.origin = "live"
    /\ ~last.listed
    /\ ~wcActive[last.res.val.id]

\* C4: a lookup of a path that is not cached lists the repositories and
\* probes the constructible ones in order up to the first with a working
\* copy containing the path; when none has one it returns absent and leaves
\* the cache as it was, so the next lookup scans again.
C4_MissNotCached ==
    [][(last'.op = "find" /\ last'.res.ok /\ last'.at \notin DOMAIN cache)
         => /\ last'.listed
            /\ LET live == {r \in {"R2", "R3"} :
                              wcActive[r] /\ IsPrefix(WcRoot(r), last'.at)}
               IN IF live = {}
                  THEN /\ last'.res = Ok(NoCtx)
                       /\ last'.probed = <<"R2", "R3">>
                       /\ cache' = cache
                  ELSE /\ last'.res.val.origin = "live"
                       /\ last'.res.val.id \in live
                       /\ cache'[last'.at] = last'.res.val]_vars

\* A lookup that found no working copy: every constructible repository was
\* probed and the path is still not cached.
C4_Witness ==
    /\ last.op = "find"
    /\ last.res = Ok(NoCtx)
    /\ last.listed
    /\ last.probed = <<"R2", "R3">>
    /\ last.at \notin DOMAIN cache
\* The module an object resolve was called with belongs to.
ModuleOf(obj) == IF IsModule(obj) THEN obj ELSE obj.mod

\* The segments of directory dir below directory root.
Below(root, dir) == SubSeq(dir, Len(root) + 1, Len(dir))

\* C5: resolving an object of a user module when no repository context is
\* found for the source root, or the one found has local changes, gives no
\* code-repository source: what it returns is the plain user source with the
\* module path re-derived from the file's place below the source root.
C5_DirtyOrAbsentIsPlain ==
    (/\ last.op = "resolve"
     /\ last.type = "user"
     /\ (last.ctx = NoCtx \/ HasLocalChanges(last.ctx)))
      => LET f == ModuleOf(last.obj).file IN
         IF f.ext = "py"
         THEN last.res = Ok([variant |-> "plain", type |-> "user",
                             module |-> Below(get_source_root.val, f.dir) \o <<f.stem>>,
                             attribute |-> IF IsModule(last.obj) THEN "" ELSE last.obj.name])
         ELSE last.res = Err("RuntimeError")

\* A user object resolved to the plain source although a repository context
\* was found, because its working copy has local changes.
C5_Witness ==
    /\ last.op = "resolve"
    /\ last.type = "user"
    /\ last.ctx # NoCtx
    /\ HasLocalChanges(last.ctx)
    /\ last.res.ok
    /\ last.res.val.variant = "plain"

\* C6 as stated: resolving an object of a user module whose path re-derives,
\* when a context without local changes is found for the source root, gives
\* the code-repository source.
C6_CleanIsCodeRepository ==
    (/\ last.op = "resolve"
     /\ last.type = "user"
     /\ last.ctx # NoCtx
     /\ ~HasLocalChanges(last.ctx)
     /\ ModuleOf(last.obj).file.ext = "py")
      => (last.res.ok /\ last.res.val.variant = "code_repository")

\* C6 amended: under the same conditions, and the source root lying at or
\* below the context's root, resolve gives the code-repository source with
\* the context's repository id, its current commit and the subdirectory of
\* the source root below the context's root ("." when they coincide); when
\* the context's root does not contain the source root resolve raises
\* ValueError.
C6_CleanWithinRootIsCodeRepository ==
    (/\ last.op = "resolve"
     /\ last.type = "user"
     /\ last.ctx # NoCtx
     /\ ~HasLocalChanges(last.ctx)
     /\ ModuleOf(last.obj).file.ext = "py")
      => LET f == ModuleOf(last.obj).file
             root == get_source_root.val
         IN IF IsPrefix(last.ctx.root, root)
            THEN last.res =
                   Ok([variant |-> "code_repository", type |-> "code_repository",
                       module |-> Below(root, f.dir) \o <<f.stem>>,
                       attribute |-> IF IsModule(last.obj) THEN "" ELSE last.obj.name,
                       repository_id |-> last.ctx.id,
                       commit |-> IF last.ctx.origin = "live" THEN WcCommit(last.ctx.id)
                                  ELSE last.ctx.commit,
                       subdirectory |-> IF root = last.ctx.root THEN <<".">>
                                        ELSE Below(last.ctx.root, root)])
            ELSE last.res = Err("ValueError")

\* A user object resolved to a code-repository source whose subdirectory is
\* a proper one: the source root lies strictly below the context's root.
C6_Witness ==
    /\ last.op = "resolve"
    /\ last.res.ok
    /\ last.res.val.variant = "code_repository"
    /\ last.res.val.subdirectory = <<"pkg">>
    /\ last.res.val.commit = CurrentCommit(last.ctx)

\* The loads C7 is about: load of what resolve just returned for a top-level
\* class or function of a user module with a clean context found.
RoundTrip ==
    /\ last.op = "load"
    /\ last.from # NoAttr
    /\ ~IsModule(last.from)
    /\ last.source.variant = "code_repository"

\* C7 as stated: load(resolve(f)) is f.
C7_RoundTripIsIdentity ==
    RoundTrip => last.res = Ok(last.from)

\* C7 amended: resolve records the module path re-derived from the file's
\* place below the source root; load(resolve(f)) is f itself when f's module
\* is loaded under that path as its name, and otherwise, when the import
\* succeeds, the attribute named like f of the module import gives for that
\* path.
C7_RoundTripByName ==
    RoundTrip
      => LET f == last.from.mod.file
             path == Below(get_source_root.val, f.dir) \o <<f.stem>>
         IN /\ last.source.module = path
            /\ last.from.mod.name = path => last.res = Ok(last.from)
            /\ last.res.ok => /\ last.res.val.name = last.from.name
                              /\ last.res.val.mod.name = path

\* A round trip that returned the very object resolved, from a package
\* module below the source root.
C7_Witness ==
    /\ RoundTrip
    /\ last.res = Ok(last.from)
    /\ Len(last.source.module) > 1

\* C8: resolving a class or function that is not the attribute its module
\* binds under the object's name fails with RuntimeError and gives no source.
C8_NotTopLevelFails ==
    (/\ last.op = "resolve"
     /\ ~IsModule(last.obj)
     /\ ModuleOf(last.obj) \in sysModules
     /\ last.obj.scope # "top")
      => last.res = Err("RuntimeError")

\* A function local to a function body, named like a top-level definition of
\* its module, was refused.
C8_Witness ==
    /\ last.op = "resolve"
    /\ ~IsModule(last.obj)
    /\ last.obj.scope = "local"
    /\ last.obj.name \in TopLevelNames
    /\ ~last.res.ok

\* What the rules of get_source_type give for module m when the source root
\* is root, written on the directories themselves.
RuleOrder(m, root) ==
    IF m.file = NoFile THEN "builtin"
    ELSE IF m.name[1] = "zenml" THEN "internal"
    ELSE IF IsPrefix(Std, m.file.dir) THEN "builtin"
    ELSE IF IsPrefix(root, m.file.dir) THEN "user"
    ELSE IF \/ IsPrefix(Sp, m.file.dir) \/ IsPrefix(AppSp, m.file.dir)
            \/ IsPrefix(StdSp, m.file.dir)
            \/ m.name[1] \in {"numpy", "six", "edit"}
    THEN "distribution_package"
    ELSE "unknown"

\* The modules the first three rules settle.
SettledWithoutRoot(m) ==
    m.file = NoFile \/ m.name[1] = "zenml" \/ IsPrefix(Std, m.file.dir)

\* C9 as stated: get_source_type gives every module the classification of
\* the first matching rule.
C9_ClassifierTotal ==
    last.op = "classify"
      => (last.res.ok /\ last.res.val \in {"builtin", "internal", "user",
                                           "distribution_package", "unknown"})

\* C9 amended: get_source_type gives the classification of the first matching
\* rule to every module the first three rules settle and, when the source
\* root can be determined, to every other module; when it cannot,
\* get_source_type raises the RuntimeError of get_source_root for the others.
C9_ClassifierRuleOrder ==
    last.op = "classify"
      => LET m == last.module
             custom == customSourceRoot # <<>>
             known == custom \/ env.repoRoot # <<>> \/ env.main = "file"
             root == IF custom THEN customSourceRoot
                     ELSE IF env.repoRoot # <<>> THEN env.repoRoot ELSE App
         IN IF SettledWithoutRoot(m) \/ known
            THEN last.res = Ok(RuleOrder(m, root))
            ELSE last.res = Err("RuntimeError")

\* A module whose file is below the source root and below a site-packages
\* directory was classified user.
C9_Witness ==
    /\ last.op = "classify"
    /\ last.res = Ok("user")
    /\ IsPrefix(AppSp, last.module.file.dir)

\* C10: resolving an object of a module classified distribution-package
\* gives the distribution-package source, with the package and its installed
\* version ("" when the lookup fails), when exactly one distribution owns the
\* module's top-level name, and else the plain source classified unknown.
C10_SingleOwnerOnly ==
    (last.op = "resolve" /\ last.type = "distribution_package")
      => LET m == ModuleOf(last.obj)
             attribute == IF IsModule(last.obj) THEN "" ELSE last.obj.name
         IN IF m.name[1] = "numpy"
            THEN last.res = Ok([variant |-> "distribution_package",
                                type |-> "distribution_package", module |-> m.name,
                                attribute |-> attribute, package_name |-> "numpy",
                                version |-> "1.0"])
            ELSE IF m.name[1] = "edit"
            THEN last.res = Ok([variant |-> "distribution_package",
                                type |-> "distribution_package", module |-> m.name,
                                attribute |-> attribute, package_name |-> "edit-pkg",
                                version |-> ""])
            ELSE last.res = Ok([variant |-> "plain", type |-> "unknown",
                                module |-> m.name, attribute |-> attribute])

\* An object of a module in site-packages whose top-level name two
\* distributions own was resolved to the plain source classified unknown.
C10_Witness ==
    /\ last.op = "resolve"
    /\ last.type = "distribution_package"
    /\ ModuleOf(last.obj).name[1] = "ns"
    /\ last.res.ok
    /\ last.res.val.type = "unknown"
\* C11: get_source_root returns the custom source root whenever one is set,
\* whatever repository root or entry-point file exists; without one the
\* repository root when there is one; else the directory of the entry-point
\* file, and it raises RuntimeError when __main__ is absent or has no file.
C11_SourceRootPriority ==
    last.op = "get_root"
      => IF customSourceRoot # <<>> THEN last.res = Ok(customSourceRoot)
         ELSE IF env.repoRoot = Pkg THEN last.res = Ok(Pkg)
         ELSE IF env.main = "file" THEN last.res = Ok(App)
         ELSE /\ env.main \in {"nofile", "absent"}
              /\ last.res = Err("RuntimeError")

\* The custom source root was returned although a repository root and an
\* entry-point file exist, both giving another directory.
C11_Witness ==
    /\ last.op = "get_root"
    /\ env.repoRoot = Pkg
    /\ env.main = "file"
    /\ customSourceRoot = App
    /\ last.res = Ok(App)
\* C12: a load of a code-repository source, the source root being known, logs
\* a drift warning when no context is found for the source root, when the
\* context found is of another repository, when it is at another commit, and
\* when its working copy has uncommitted changes; in each case the import
\* runs all the same, with the source root prepended, and the load raises
\* only what the import and the attribute lookup raise.
C12_DriftWarnsAndLoads ==
    (last.op = "load" /\ last.source.type = "code_repository" /\ get_source_root.ok)
      => LET root == get_source_root.val
             ctx == IF root \in DOMAIN cache THEN cache[root] ELSE NoCtx
             drift == \/ ctx = NoCtx
                      \/ ctx.id # last.source.repository_id
                      \/ ctx.origin = "live" /\ WcCommit(ctx.id) # last.source.commit
                      \/ ctx.origin = "live" /\ wcDirty[ctx.id]
         IN /\ drift => last.warning \in {"not_active", "other_repository",
                                          "other_commit", "dirty"}
            /\ last.pathDuring = <<root>> \o last.pathBefore
            /\ \/ last.res.ok
               \/ last.res \in {Err("ModuleNotFoundError"), Err("AttributeError")}

\* A code-repository source was loaded from a working copy of its repository
\* at its commit with uncommitted changes: the warning was logged and the
\* object returned.
C12_Witness ==
    /\ last.op = "load"
    /\ last.source.type = "code_repository"
    /\ last.warning = "dirty"
    /\ last.res.ok
    /\ last.pathDuring # last.pathBefore
\* C13: validate_source_class never raises: it returns TRUE when
\* load_and_validate_class, called in the same state with the same descriptor
\* and expected class, returns, and FALSE when that raises.
\* load_and_validate_class returns the loaded object when it is a class
\* deriving from the expected class, raises TypeError when the object loaded
\* is anything else, and raises what load raised when the load failed.
C13_ValidateAgrees ==
    [][/\ last'.op = "validate"
           => /\ last'.res \in BOOLEAN
              /\ last'.res = LoadAndValidateResult(LoadOutcomeOf(last'.source).res,
                                                   last'.expected).ok
       /\ last'.op = "load_and_validate"
           => LET fits == /\ last'.loaded.ok
                          /\ ~IsModule(last'.loaded.val)
                          /\ last'.loaded.val.name = "K"
                          /\ last'.expected = "Base"
              IN /\ fits => last'.res = last'.loaded
                 /\ (last'.loaded.ok /\ ~fits) => last'.res = Err("TypeError")
                 /\ ~last'.loaded.ok => last'.res = last'.loaded]_vars

\* validate_source_class returned FALSE for a descriptor whose load raised.
C13_Witness ==
    /\ last.op = "validate"
    /\ ~last.loaded.ok
    /\ last.res = FALSE
\* C14: a lookup of a path that is not cached walks the listing R1, R2, R3 in
\* order: R1, whose construction fails, is skipped and the scan goes on; the
\* others are probed up to the first that has an active working copy containing
\* the path, whose context is returned and cached under the path; the ones
\* after it are not probed.
C14_ScanFirstMatch ==
    [][(last'.op = "find" /\ last'.res.ok /\ last'.at \notin DOMAIN cache)
         => LET order == <<"R2", "R3">>
                hits == {i \in 1..2 : /\ wcActive[order[i]]
                                      /\ IsPrefix(WcRoot(order[i]), last'.at)}
            IN IF hits = {}
               THEN /\ last'.probed = order
                    /\ last'.res = Ok(NoCtx)
               ELSE LET k == CHOOSE i \in hits : \A j \in hits : i <= j
                        found == [origin |-> "live", id |-> order[k],
                                  root |-> WcRoot(order[k])]
                    IN /\ last'.probed = SubSeq(order, 1, k)
                       /\ last'.res = Ok(found)
                       /\ cache' = [q \in DOMAIN cache \cup {last'.at} |->
                                      IF q = last'.at THEN found ELSE cache[q]]]_vars

\* A scan that stopped at R2 for a path R3 has an active working copy for
\* too: R2's context was returned and cached, R3 was not probed.
C14_Witness ==
    /\ last.op = "find"
    /\ last.listed
    /\ last.probed = <<"R2">>
    /\ wcActive["R3"]
    /\ IsPrefix(WcRoot("R3"), last.at)
    /\ last.res.ok
    /\ last.res.val.id = "R2"
    /\ cache[last.at] = last.res.val
\* C15: a load of a source classified code_repository, user or unknown (an
\* import path string is loaded as unknown) imports with the source root
\* put in front of sys.path, and when the source root cannot be determined
\* raises RuntimeError without importing; a load of a source of any other
\* classification imports with sys.path as it was and leaves it so.
C15_PrependedByClassification ==
    last.op = "load"
      => LET custom == customSourceRoot # <<>>
             known == custom \/ env.repoRoot # <<>> \/ env.main = "file"
             root == IF custom THEN customSourceRoot
                     ELSE IF env.repoRoot # <<>> THEN env.repoRoot ELSE App
         IN IF last.source.type \in {"code_repository", "user", "unknown"}
            THEN IF known
                 THEN /\ Head(last.pathDuring) = root
                      /\ Tail(last.pathDuring) = last.pathBefore
                 ELSE /\ last.pathDuring = last.pathBefore
                      /\ last.res = Err("RuntimeError")
            ELSE /\ last.source.type \in {"internal", "builtin", "distribution_package"}
                 /\ last.pathDuring = last.pathBefore
                 /\ sysPath = last.pathBefore

\* An import path string was loaded: its module was imported with the source
\* root in front of sys.path.
C15_Witness ==
    /\ last.op = "load"
    /\ last.source = [variant |-> "plain", module |-> <<"pkg", "mod">>,
                      attribute |-> "f", type |-> "unknown"]
    /\ Len(last.pathDuring) = Len(last.pathBefore) + 1
    /\ last.res.ok
\* The source root of the current state, written on the state itself
\* (<<>> when it cannot be determined).
RootNow ==
    IF customSourceRoot # <<>> THEN customSourceRoot
    ELSE IF env.repoRoot # <<>> THEN env.repoRoot
    ELSE IF env.main = "file" THEN App
    ELSE <<>>

\* C16: set_custom_local_repository stores the injected context under the
\* source root of the moment and under no other path, and leaves every other
\* entry alone; set_custom_source_root never changes the cache; a lookup
\* without a path looks at the source root of its own moment only: when that
\* path has no entry the repositories are listed and the result is a live
\* context or none, whatever is injected under other paths, and when it has
\* one that entry is returned.
C16_InjectedKeyedBySourceRoot ==
    [][/\ (last'.op = "inject" /\ last'.res.ok)
           => /\ last'.res = Ok(RootNow)
              /\ DOMAIN cache' = DOMAIN cache \cup {RootNow}
              /\ cache'[RootNow] = last'.ctx
              /\ \A q \in DOMAIN cache \ {RootNow} : cache'[q] = cache[q]
       /\ last'.op = "set_root" => cache' = cache
       /\ (last'.op = "find" /\ last'.path = <<>> /\ last'.res.ok)
           => /\ last'.at = RootNow
              /\ IF RootNow \in DOMAIN cache
                 THEN last'.res = Ok(cache[RootNow]) /\ ~last'.listed
                 ELSE last'.listed /\ last'.res.val.origin \in {"none", "live"}]_vars

\* A lookup without a path went to the repositories and returned no injected
\* context, one being cached under another path than the present source root.
C16_Witness ==
    /\ last.op = "find"
    /\ last.path = <<>>
    /\ last.listed
    /\ last.res.ok
    /\ last.res.val.origin # "downloaded"
    /\ \E p \in DOMAIN cache : p # last.at /\ cache[p].origin = "downloaded"
====
